---- MODULE Spec2Model ----
(***************************************************************************)
(* Behavioural model of the Autocomplete widget (components/Autocomplete   *)
(* .tsx) wired to the fruit suggestion source (data.ts) as App.tsx does.   *)
(*                                                                         *)
(* Text is modelled as a sequence of one-character strings so that trim,   *)
(* toLowerCase and includes are computed the way the code computes them.   *)
(* State updates made by a handler of a discrete browser event (change,     *)
(* key, click, pointer-down, focus) are rendered before the event returns,  *)
(* and the effect runs on that render.  State updates made by the effect    *)
(* body, by a `then` callback or by a hover handler are queued and rendered *)
(* by a later task; events dispatched meanwhile are handled against the     *)
(* last render and their updates are rebased on the queued ones.            *)
(***************************************************************************)
EXTENDS Integers, Sequences, FiniteSets, TLC

\* ------------------------------------------------------------------ bounds
\* fetchSuggestions calls issued in one run of the model.
MaxFetches == 2

\* ------------------------------------------------------------- text domain
\* The texts the user may put into the input element (e.target.value).
Texts == { <<>>, <<" ">>, <<" ", "b">> }

\* Two UTF-16 code units beside the ASCII ones: U+0130 (capital I with dot
\* above) and U+0307 (combining dot above).
DottedI == "U+0130"
CombiningDot == "U+0307"

\* String.prototype.toLowerCase of one code unit, for the units it maps to a
\* single unit.
LowerChar(c) == IF c = "A" THEN "a" ELSE IF c = "B" THEN "b" ELSE c

\* The code units one unit lower-cases to: U+0130 becomes "i" followed by
\* U+0307, every other unit stays one unit.
LowerUnits(c) == IF c = DottedI THEN <<"i", CombiningDot>> ELSE <<LowerChar(c)>>

\* String.prototype.toLowerCase of a text.
RECURSIVE toLowerCase(_)
toLowerCase(s) ==
  IF s = <<>> THEN <<>> ELSE LowerUnits(Head(s)) \o toLowerCase(Tail(s))

\* String.prototype.trim: strip leading and trailing whitespace.
RECURSIVE TrimLeft(_)
TrimLeft(s) == IF s # <<>> /\ Head(s) = " " THEN TrimLeft(Tail(s)) ELSE s

RECURSIVE TrimRight(_)
TrimRight(s) ==
  IF s # <<>> /\ s[Len(s)] = " " THEN TrimRight(SubSeq(s, 1, Len(s) - 1)) ELSE s

trim(s) == TrimRight(TrimLeft(s))

\* String.prototype.indexOf, 0-based, -1 when absent (first occurrence).
indexOf(s, q) ==
  LET hits == {i \in 0..(Len(s) - Len(q)) : SubSeq(s, i + 1, i + Len(q)) = q}
  IN IF hits = {} THEN -1 ELSE CHOOSE i \in hits : \A j \in hits : i <= j

includes(s, q) == indexOf(s, q) # -1

\* String.prototype.slice(from, to) for 0 <= from, 0 <= to.
slice(s, from, to) ==
  LET end == IF to < Len(s) THEN to ELSE Len(s)
  IN IF from >= end THEN <<>> ELSE SubSeq(s, from + 1, end)

\* ------------------------------------------------------ suggestion source
\* The list of fruit names that getFruitsWithCache resolves to.
FruitList == << <<"A", "b">>, <<"b", "a">> >>

\* data.ts fetchFruits: trim + lower-case the query, [] for a blank query,
\* otherwise the fruits whose lower-cased name includes it, in list order.
fetchFruits(query) ==
  LET lowerQuery == toLowerCase(trim(query))
  IN IF lowerQuery = <<>> THEN <<>>
     ELSE SelectSeq(FruitList, LAMBDA fruit : includes(toLowerCase(fruit), lowerQuery))

\* ------------------------------------------------------------------- state
VARIABLES
  inputValue,        \* useState('')
  suggestions,       \* useState<string[]>([])
  highlightedIndex,  \* useState<number>(-1)
  open,              \* useState(false)
  loading,           \* useState(false)
  queued,            \* the hook values the next render commits
  mounted,           \* the component instance is mounted
  onSelect,          \* TRUE iff the caller passed an onSelect prop
  fetches,           \* every fetchSuggestions call, in issue order
  selected,          \* the values onSelect has been invoked with, in order
  event,             \* the last step of the widget: an event or a render
  hlInput,           \* renderHighlighted: the input text it closes over
  hlSuggestion,      \* renderHighlighted: its argument
  hlOut,             \* renderHighlighted: what it returned
  now,               \* data.ts: what Date.now() returns
  fruitsCache,       \* data.ts: let fruitsCache: string[] | null
  lastFetchTime,     \* data.ts: let lastFetchTime: number
  calls,             \* data.ts: every fetchFruits call, in call order
  apiRequests        \* data.ts: number of fetchAllFruits() invocations

widgetVars == <<inputValue, suggestions, highlightedIndex, open, loading, queued,
                mounted, onSelect, fetches, selected, event>>

hlVars == <<hlInput, hlSuggestion, hlOut>>

frVars == <<now, fruitsCache, lastFetchTime, calls, apiRequests>>

vars == <<widgetVars, hlVars, frVars>>

\* renderHighlighted has not been called.
NotRendered == [kind |-> "none"]

HlIdle == hlInput = <<>> /\ hlSuggestion = <<>> /\ hlOut = NotRendered

\* data.ts right after the module is loaded.
Null == "null"

CACHE_DURATION == 5 * 60 * 1000

StartTime == CACHE_DURATION

FrIdle ==
  /\ now = StartTime
  /\ fruitsCache = Null
  /\ lastFetchTime = 0
  /\ calls = <<>>
  /\ apiRequests = 0

Ev(o, k) == [op |-> o, n |-> k]

\* The values of the state hooks below inputValue, as one record.
Hooks(sugg, hi, op, ld) ==
  [suggestions |-> sugg, highlightedIndex |-> hi, open |-> op, loading |-> ld]

\* What the last render committed: the values handlers and markup see.
Rendered == Hooks(suggestions, highlightedIndex, open, loading)

NoEvent == Ev("mount", 0)

Init ==
  /\ inputValue = <<>>
  /\ suggestions = <<>>
  /\ highlightedIndex = -1
  /\ open = FALSE
  /\ loading = FALSE
  /\ queued = Hooks(<<>>, -1, FALSE, FALSE)
  /\ mounted = TRUE
  /\ onSelect \in BOOLEAN
  /\ fetches = <<>>
  /\ selected = <<>>
  /\ event = NoEvent
  /\ HlIdle
  /\ FrIdle

\* --------------------------------------------------------- the fetch effect
\* A cleanup that leaves `active` as it is.
DeactivateNone(fs) == fs

\* Cleanup of the previous effect run: its closure's `active` becomes false.
Deactivate(fs) == [i \in 1..Len(fs) |-> [fs[i] EXCEPT !.active = FALSE]]

\* A call that trims the text before handing it over.
FetchArgTrimmed(value) == trim(value)

\* The argument the effect hands to fetchSuggestions.
FetchArg(value) == value

\* A call that lower-cases the text before handing it over.
NewFetchLowered(value) ==
  [text |-> value, arg |-> toLowerCase(value), active |-> TRUE,
   status |-> "pending", applied |-> 0]

\* One fetchSuggestions call issued by the effect for input text `value`.
NewFetch(value) ==
  [text |-> value, arg |-> FetchArg(value), active |-> TRUE,
   status |-> "pending", applied |-> 0]

\* `!inputValue`: the effect body clears the widget and returns early.
EmptyInput(value) == value = <<>>

\* Does a new input text `value` make the effect issue a fetch?
IssuesFetch(value) == value # inputValue /\ ~EmptyInput(value)

\* The state updates the effect body queues for input text `value`, applied
\* on top of the queued values q.
EffectUpdates(value, q) ==
  IF EmptyInput(value)
  THEN [q EXCEPT !.suggestions = <<>>, !.open = FALSE, !.highlightedIndex = -1]
  ELSE [q EXCEPT !.loading = TRUE]

\* The render at the end of an event whose handler left the input text at
\* `value` and the queued values at q: when the input text changed, the
\* previous effect is cleaned up and the effect body runs; it queues its
\* updates and, for a non-empty text, calls fetchSuggestions.
RunEffect(value, q) ==
  /\ inputValue' = value
  /\ IF value = inputValue
     THEN /\ queued' = q
          /\ UNCHANGED fetches
     ELSE /\ queued' = EffectUpdates(value, q)
          /\ fetches' = IF EmptyInput(value)
                        THEN Deactivate(fetches)
                        ELSE Append(Deactivate(fetches), NewFetch(value))

\* The effect may issue a fetch only while the model's fetch budget lasts.
Budget(value) == IssuesFetch(value) => Len(fetches) < MaxFetches

\* ------------------------------------------------------------------ actions
\* onChange of the input element.  React dispatches onChange only when the
\* element's value differs from the value it last rendered.
handleChange(value) ==
  /\ mounted
  /\ value # inputValue
  /\ Budget(value)
  /\ RunEffect(value, queued)
  /\ event' = Ev("change", 0)
  /\ UNCHANGED <<hlVars, frVars>>
  /\ UNCHANGED <<suggestions, highlightedIndex, open, loading, mounted, onSelect,
                 selected>>

\* A commit that leaves the candidate list in place.
handleSelectKeepList(value) ==
  /\ Budget(value)
  /\ open' = FALSE
  /\ highlightedIndex' = -1
  /\ UNCHANGED <<suggestions, loading>>
  /\ RunEffect(value, [queued EXCEPT !.open = FALSE, !.highlightedIndex = -1])
  /\ selected' = IF onSelect THEN Append(selected, value) ELSE selected
  /\ UNCHANGED <<mounted, onSelect>>

\* handleSelect: commit `value` (from Enter or from a click on an option).
handleSelect(value) ==
  /\ Budget(value)
  /\ open' = FALSE
  /\ suggestions' = <<>>
  /\ highlightedIndex' = -1
  /\ UNCHANGED loading
  /\ RunEffect(value, [queued EXCEPT !.open = FALSE, !.suggestions = <<>>,
                                     !.highlightedIndex = -1])
  /\ selected' = IF onSelect THEN Append(selected, value) ELSE selected
  /\ UNCHANGED <<mounted, onSelect>>

\* The functional updates of the arrow keys (0-based index, list length len).
ArrowDownIndex(prev, len) == LET next == prev + 1 IN IF next >= len THEN 0 ELSE next

ArrowUpIndex(prev, len) == LET next == prev - 1 IN IF next < 0 THEN len - 1 ELSE next

\* An Enter guard that is off by one at the first option.
EnterCommitsOffByOne == highlightedIndex > 0 /\ highlightedIndex < Len(suggestions)

\* Enter commits only when the highlighted index is inside the list.
EnterCommits == highlightedIndex >= 0 /\ highlightedIndex < Len(suggestions)

Keys == {"ArrowDown", "ArrowUp", "Enter", "Escape", "Other"}

\* A key handler without the early return.
KeysProcessedAlways == TRUE

\* `if (!open) return`: keys are processed only while the list is open.
KeysProcessed == open

\* An Escape branch that also drops the highlight.
EscapeUpdatesResets(q) == [q EXCEPT !.open = FALSE, !.highlightedIndex = -1]

\* The state updates of the handler's Escape branch, applied to hook values q.
EscapeUpdates(q) == [q EXCEPT !.open = FALSE]

\* The handler's update of the highlighted index for an arrow key: the
\* updater closes over the rendered list length and is applied to the
\* rendered index and, rebased, to the queued one.
ArrowUpdate(prev, key) ==
  IF key = "ArrowDown" THEN ArrowDownIndex(prev, Len(suggestions))
  ELSE ArrowUpIndex(prev, Len(suggestions))

\* onKeyDown of the input element.
handleKeyDown(key) ==
  /\ mounted
  /\ event' = Ev(key, 0)
  /\ UNCHANGED <<hlVars, frVars>>
  /\ IF ~KeysProcessed
     THEN UNCHANGED <<inputValue, suggestions, highlightedIndex, open, loading,
                      queued, mounted, onSelect, fetches, selected>>
     ELSE IF key \in {"ArrowDown", "ArrowUp"}
     THEN /\ highlightedIndex' = ArrowUpdate(highlightedIndex, key)
          /\ queued' = [queued EXCEPT !.highlightedIndex = ArrowUpdate(@, key)]
          /\ UNCHANGED <<inputValue, suggestions, open, loading, mounted, onSelect,
                         fetches, selected>>
     ELSE IF key = "Enter"
     THEN IF EnterCommits
          THEN handleSelect(suggestions[highlightedIndex + 1])
          ELSE UNCHANGED <<inputValue, suggestions, highlightedIndex, open, loading,
                           queued, mounted, onSelect, fetches, selected>>
     ELSE IF key = "Escape"
     THEN /\ open' = EscapeUpdates(Rendered).open
          /\ highlightedIndex' = EscapeUpdates(Rendered).highlightedIndex
          /\ queued' = EscapeUpdates(queued)
          /\ UNCHANGED <<inputValue, suggestions, loading, mounted,
                         onSelect, fetches, selected>>
     ELSE UNCHANGED <<inputValue, suggestions, highlightedIndex, open, loading,
                      queued, mounted, onSelect, fetches, selected>>

\* onFocus of the input element.
onFocus ==
  /\ mounted
  /\ open' = IF Len(suggestions) > 0 THEN TRUE ELSE open
  /\ queued' = IF Len(suggestions) > 0 THEN [queued EXCEPT !.open = TRUE] ELSE queued
  /\ event' = Ev("focus", 0)
  /\ UNCHANGED <<hlVars, frVars>>
  /\ UNCHANGED <<inputValue, suggestions, highlightedIndex, loading, mounted,
                 onSelect, fetches, selected>>

\* A listener that closes the list wherever the pointer went down.
ClosesAlways(inside) == TRUE

\* `!containerRef.current.contains(target)`: the listener closes the list
\* only for a pointer-down outside the container.
Closes(inside) == ~inside

\* The document mousedown listener; `inside` is containerRef.contains(target).
handleClickOutside(inside) ==
  /\ mounted
  /\ open' = IF Closes(inside) THEN FALSE ELSE open
  /\ queued' = IF Closes(inside) THEN [queued EXCEPT !.open = FALSE] ELSE queued
  /\ event' = Ev(IF inside THEN "mousedownInside" ELSE "mousedownOutside", 0)
  /\ UNCHANGED <<hlVars, frVars>>
  /\ UNCHANGED <<inputValue, suggestions, highlightedIndex, loading, mounted,
                 onSelect, fetches, selected>>

\* The option elements exist only while the list is open and not loading;
\* option number index (0-based) shows suggestions[index].
OptionRendered(index) ==
  mounted /\ open /\ ~loading /\ index >= 0 /\ index < Len(suggestions)

OptionIndices == 0..(Len(FruitList) - 1)

\* The accessibility attributes the render derives from the state:
\* aria-expanded of the input,
ariaExpanded == open

\* aria-activedescendant of the input, as the number of the option it names
\* (`${id}-option-${highlightedIndex}`), -1 when the attribute is undefined,
ariaActiveDescendant == IF highlightedIndex >= 0 THEN highlightedIndex ELSE -1

\* and aria-selected of option number index.
ariaSelected(index) == index = highlightedIndex

\* onMouseEnter of an option: the update is queued for a later render.
onMouseEnter(index) ==
  /\ OptionRendered(index)
  /\ queued' = [queued EXCEPT !.highlightedIndex = index]
  /\ event' = Ev("hover", index)
  /\ UNCHANGED <<hlVars, frVars>>
  /\ UNCHANGED <<inputValue, suggestions, highlightedIndex, open, loading, mounted,
                 onSelect, fetches, selected>>

\* A click that commits the highlighted option instead of the clicked one.
onClickHighlighted(index) ==
  /\ OptionRendered(index)
  /\ highlightedIndex \in 0..(Len(suggestions) - 1)
  /\ handleSelect(suggestions[highlightedIndex + 1])
  /\ event' = Ev("click", index)
  /\ UNCHANGED <<hlVars, frVars>>

\* onClick of an option.
onClick(index) ==
  /\ OptionRendered(index)
  /\ handleSelect(suggestions[index + 1])
  /\ event' = Ev("click", index)
  /\ UNCHANGED <<hlVars, frVars>>

\* A `then` callback that highlights the first option unconditionally.
ResultIndexZero(results) == 0

\* The highlighted index the `then` callback sets for a result list.
ResultIndex(results) == IF Len(results) > 0 THEN 0 ELSE -1

\* `if (!active) return`: the closure's effect run has been cleaned up.
Stale(f) == ~f.active

\* The `then` callback of fetch number i: the promise fulfils with the
\* fetcher's result; a closure whose effect was cleaned up returns at once,
\* any other queues its four updates for a later render.
Resolve(i) ==
  /\ i \in 1..Len(fetches)
  /\ fetches[i].status = "pending"
  /\ LET results == fetchFruits(fetches[i].arg)
     IN IF Stale(fetches[i])
        THEN /\ fetches' = [fetches EXCEPT ![i].status = "resolved"]
             /\ UNCHANGED queued
        ELSE /\ fetches' = [fetches EXCEPT ![i].status = "resolved",
                                           ![i].applied = @ + 1]
             /\ queued' = Hooks(results, ResultIndex(results), TRUE, FALSE)
  /\ event' = Ev("resolve", i)
  /\ UNCHANGED <<hlVars, frVars>>
  /\ UNCHANGED <<inputValue, suggestions, highlightedIndex, open, loading, mounted,
                 onSelect, selected>>

\* A rejection handler that takes the loading indicator down.
RejectClearsLoading(i) ==
  /\ i \in 1..Len(fetches)
  /\ fetches[i].status = "pending"
  /\ fetches' = [fetches EXCEPT ![i].status = "rejected"]
  /\ queued' = IF Stale(fetches[i]) THEN queued ELSE [queued EXCEPT !.loading = FALSE]
  /\ event' = Ev("reject", i)
  /\ UNCHANGED <<hlVars, frVars>>
  /\ UNCHANGED <<inputValue, suggestions, highlightedIndex, open, loading, mounted,
                 onSelect, selected>>

\* The promise of fetch number i rejects: no `then` callback runs and the
\* widget has no rejection handler.
Reject(i) ==
  /\ i \in 1..Len(fetches)
  /\ fetches[i].status = "pending"
  /\ fetches' = [fetches EXCEPT ![i].status = "rejected"]
  /\ event' = Ev("reject", i)
  /\ UNCHANGED <<hlVars, frVars>>
  /\ UNCHANGED <<inputValue, suggestions, highlightedIndex, open, loading, queued,
                 mounted, onSelect, selected>>

\* An unmount whose cleanup leaves the closures active.
UnmountNoCleanup ==
  /\ mounted
  /\ mounted' = FALSE
  /\ event' = Ev("unmount", 0)
  /\ UNCHANGED <<hlVars, frVars>>
  /\ UNCHANGED <<inputValue, suggestions, highlightedIndex, open, loading, queued,
                 onSelect, selected, fetches>>

\* Unmount: the effect cleanups run (active = false, listener removed); the
\* updates still queued are never rendered.
Unmount ==
  /\ mounted
  /\ mounted' = FALSE
  /\ fetches' = Deactivate(fetches)
  /\ event' = Ev("unmount", 0)
  /\ UNCHANGED <<hlVars, frVars>>
  /\ UNCHANGED <<inputValue, suggestions, highlightedIndex, open, loading, queued,
                 onSelect, selected>>

\* The task that renders the queued updates: the component function runs
\* with every queued update applied and its result is committed.
Render ==
  /\ mounted
  /\ queued # Rendered
  /\ suggestions' = queued.suggestions
  /\ highlightedIndex' = queued.highlightedIndex
  /\ open' = queued.open
  /\ loading' = queued.loading
  /\ event' = Ev("render", 0)
  /\ UNCHANGED <<hlVars, frVars>>
  /\ UNCHANGED <<inputValue, queued, mounted, onSelect, fetches, selected>>

Next ==
  \/ \E value \in Texts : handleChange(value)
  \/ \E key \in Keys : handleKeyDown(key)
  \/ onFocus
  \/ \E inside \in BOOLEAN : handleClickOutside(inside)
  \/ \E index \in OptionIndices : onMouseEnter(index)
  \/ \E index \in OptionIndices : onClick(index)
  \/ \E i \in 1..MaxFetches : Resolve(i)
  \/ \E i \in 1..MaxFetches : Reject(i)
  \/ Render
  \/ Unmount

Spec == Init /\ [][Next]_vars

\* The same widget when the user may also type the name of a candidate in
\* full: the text of the input then equals an option of the list on show.
NextTyped ==
  \/ Next
  \/ handleChange(FruitList[1])

SpecTyped == Init /\ [][NextTyped]_vars

\* ------------------------------------------------- substring highlight
\* The widget as it stands right after mounting, with no onSelect prop.
WidgetIdle ==
  /\ inputValue = <<>>
  /\ suggestions = <<>>
  /\ highlightedIndex = -1
  /\ open = FALSE
  /\ loading = FALSE
  /\ queued = Hooks(<<>>, -1, FALSE, FALSE)
  /\ mounted = TRUE
  /\ onSelect = FALSE
  /\ fetches = <<>>
  /\ selected = <<>>
  /\ event = NoEvent

\* Input texts and suggestions renderHighlighted is applied to.
MaxHlInputLen == 2
MaxHlSuggestionLen == 3

HlChars == {"a", "A", "b", " ", DottedI}

RECURSIVE HlTexts(_)
HlTexts(n) ==
  IF n = 0 THEN {<<>>}
  ELSE LET shorter == HlTexts(n - 1)
       IN shorter \cup
          {Append(t, c) : t \in {u \in shorter : Len(u) = n - 1}, c \in HlChars}

\* What renderHighlighted returns: the suggestion itself, or the fragment
\* before / <mark>match</mark> / after.
Plain(suggestion) == [kind |-> "plain", text |-> suggestion]

Marked(b, m, a) == [kind |-> "split", before |-> b, match |-> m, after |-> a]

renderHighlighted(input, suggestion) ==
  LET query == trim(input)
  IN IF query = <<>> THEN Plain(suggestion)
     ELSE LET index == indexOf(toLowerCase(suggestion), toLowerCase(query))
          IN IF index = -1 THEN Plain(suggestion)
             ELSE Marked(slice(suggestion, 0, index),
                         slice(suggestion, index, index + Len(query)),
                         slice(suggestion, index + Len(query), Len(suggestion)))

HlInit ==
  /\ WidgetIdle
  /\ FrIdle
  /\ hlInput \in HlTexts(MaxHlInputLen)
  /\ hlSuggestion \in HlTexts(MaxHlSuggestionLen)
  /\ hlOut = NotRendered

\* One call renderHighlighted(sugg) during a render.
HlRender ==
  /\ hlOut = NotRendered
  /\ hlOut' = renderHighlighted(hlInput, hlSuggestion)
  /\ UNCHANGED <<hlInput, hlSuggestion, widgetVars, frVars>>

HlNext == HlRender

SpecHighlight == HlInit /\ [][HlNext]_vars

\* ----------------------------------------------------------- fruit cache
\* Calls of fetchFruits in one run of the model, and cache periods the clock
\* may run through.
MaxCalls == 2
MaxPeriods == 1

\* The instants at which something happens: each multiple of the cache
\* duration after the start, and one millisecond before it.
Times ==
  {StartTime + k * CACHE_DURATION + e : k \in 0..MaxPeriods, e \in {-1, 0}}

\* The queries fetchFruits is called with.
FruitQueries == { <<>>, <<" ">>, <<"a">>, <<"B">>, <<"b", "b">> }

\* The name lists the API may answer with, and the built-in list
\* fetchAllFruits falls back to.
ApiLists == { << <<"A", "b">> >>, << <<"b", "a">>, <<"A", "b">> >> }

FallbackFruits == FruitList

\* allFruits.filter(fruit => fruit.toLowerCase().includes(lowerQuery))
filterFruits(allFruits, lowerQuery) ==
  SelectSeq(allFruits, LAMBDA fruit : includes(toLowerCase(fruit), lowerQuery))

\* A validity test that still accepts a cache of exactly CACHE_DURATION.
CacheValidInclusive(t) ==
  fruitsCache # Null /\ (t - lastFetchTime) <= CACHE_DURATION

\* getFruitsWithCache: `fruitsCache && (now - lastFetchTime) < CACHE_DURATION`
CacheValid(t) ==
  fruitsCache # Null /\ (t - lastFetchTime) < CACHE_DURATION

\* One fetchFruits call: its query, where it stands, the `now` it read, whether
\* it invoked fetchAllFruits, the list that call produced, and what the
\* promise resolved to.
FruitCall(query, pc, requested, result) ==
  [query |-> query, pc |-> pc, at |-> now, requested |-> requested,
   list |-> Null, result |-> result]

FrInit == WidgetIdle /\ HlIdle /\ FrIdle

\* Time passes.
FrTick(t) ==
  /\ t > now
  /\ now' = t
  /\ UNCHANGED <<fruitsCache, lastFetchTime, calls, apiRequests, widgetVars, hlVars>>

\* fetchFruits(query) is called and runs up to its first suspension: a blank
\* query returns [], a valid cache is filtered, otherwise fetchAllFruits
\* sends the direct request.
FrCall(query) ==
  /\ Len(calls) < MaxCalls
  /\ LET lowerQuery == toLowerCase(trim(query))
     IN IF lowerQuery = <<>>
        THEN /\ calls' = Append(calls, FruitCall(query, "done", FALSE, <<>>))
             /\ UNCHANGED apiRequests
        ELSE IF CacheValid(now)
        THEN /\ calls' = Append(calls, FruitCall(query, "done", FALSE,
                                                 filterFruits(fruitsCache, lowerQuery)))
             /\ UNCHANGED apiRequests
        ELSE /\ calls' = Append(calls, FruitCall(query, "direct", TRUE, <<>>))
             /\ apiRequests' = apiRequests + 1
  /\ UNCHANGED <<now, fruitsCache, lastFetchTime, widgetVars, hlVars>>

\* fetchAllFruits of call i returned `list`: getFruitsWithCache stores it with
\* the `now` the call read at its start, and fetchFruits filters it.
FrComplete(i, list) ==
  /\ fruitsCache' = list
  /\ lastFetchTime' = calls[i].at
  /\ calls' = [calls EXCEPT
       ![i].pc = "done",
       ![i].list = list,
       ![i].result = filterFruits(list, toLowerCase(trim(calls[i].query)))]
  /\ UNCHANGED <<now, apiRequests, widgetVars, hlVars>>

\* The direct request succeeds with a name list.
FrDirectOk(i, list) ==
  /\ i \in 1..Len(calls)
  /\ calls[i].pc = "direct"
  /\ FrComplete(i, list)

\* The direct request fails: the request through the CORS proxy is sent.
FrDirectFail(i) ==
  /\ i \in 1..Len(calls)
  /\ calls[i].pc = "direct"
  /\ calls' = [calls EXCEPT ![i].pc = "proxy"]
  /\ UNCHANGED <<now, fruitsCache, lastFetchTime, apiRequests, widgetVars, hlVars>>

\* The proxy request succeeds with a name list.
FrProxyOk(i, list) ==
  /\ i \in 1..Len(calls)
  /\ calls[i].pc = "proxy"
  /\ FrComplete(i, list)

\* A fetchAllFruits without the inner catch: the failure of the proxy
\* request rejects the call.
FrProxyFailRejects(i) ==
  /\ i \in 1..Len(calls)
  /\ calls[i].pc = "proxy"
  /\ calls' = [calls EXCEPT ![i].pc = "rejected"]
  /\ UNCHANGED <<now, fruitsCache, lastFetchTime, apiRequests, widgetVars, hlVars>>

\* The proxy request fails too: the built-in list is returned.
FrProxyFail(i) ==
  /\ i \in 1..Len(calls)
  /\ calls[i].pc = "proxy"
  /\ FrComplete(i, FallbackFruits)

FrNext ==
  \/ \E t \in Times : FrTick(t)
  \/ \E query \in FruitQueries : FrCall(query)
  \/ \E i \in 1..MaxCalls, list \in ApiLists : FrDirectOk(i, list)
  \/ \E i \in 1..MaxCalls : FrDirectFail(i)
  \/ \E i \in 1..MaxCalls, list \in ApiLists : FrProxyOk(i, list)
  \/ \E i \in 1..MaxCalls : FrProxyFail(i)

SpecFruits == FrInit /\ [][FrNext]_vars

\* ------------------------------------------------------------------ claims
\* Shorthands over one step of the widget.
Applies(i) ==
  i \in 1..Len(fetches) /\ fetches'[i].applied > fetches[i].applied

WidgetState == <<inputValue, suggestions, highlightedIndex, open, loading>>

Notified(value) ==
  selected' = IF onSelect THEN Append(selected, value) ELSE selected

\* No update is waiting for a render.
Settled == queued = Rendered

\* The step is the render of the queued updates.
Renders == event'.op = "render"

\* C1: the `then` callback of a fetch applies its result only for the fetch
\* issued last, only while the input text is still the text it was issued
\* for, and at most once; a superseded fetch is never applied, in whatever
\* order the fetches settle; the render commits the applied list.
Thm_C1 ==
  [][/\ \A i \in 1..MaxFetches :
          Applies(i) =>
            /\ i = Len(fetches)
            /\ fetches[i].text = inputValue
            /\ fetches[i].applied = 0
            /\ queued'.suggestions = fetchFruits(inputValue')
     /\ Renders => suggestions' = queued.suggestions]_vars

\* q1's fetch settled after q2's result had been rendered, and was dropped.
Wit_C1 ==
  /\ Len(fetches) = 2
  /\ event = Ev("resolve", 1)
  /\ fetches[1].status = "resolved" /\ fetches[1].applied = 0
  /\ fetches[2].status = "resolved" /\ fetches[2].applied = 1
  /\ fetchFruits(fetches[1].arg) # fetchFruits(fetches[2].arg)
  /\ suggestions = fetchFruits(fetches[2].arg)
  /\ Settled

\* C2 (as claimed): a candidate list the user can see (list open, not
\* loading, at least one option) is the fetcher's result for the current
\* input text.
CE_C2 ==
  (mounted /\ open /\ ~loading /\ suggestions # <<>>) =>
    suggestions = fetchFruits(inputValue)

\* C3 (as claimed): while the input text is empty, once every queued update
\* has been rendered, the list is closed, the candidate list is empty and
\* nothing is highlighted; no fetch was ever issued for an empty text.
CE_C3 ==
  /\ (mounted /\ inputValue = <<>> /\ Settled) =>
       (~open /\ suggestions = <<>> /\ highlightedIndex = -1)
  /\ \A i \in 1..Len(fetches) : fetches[i].text # <<>>

\* C4: when the fetch of the current effect run resolves, its `then` callback
\* queues the replacement of the candidate list by the result, loading
\* cleared, the list open, and the highlighted index 0 for a non-empty result
\* and -1 for an empty one; the render that follows commits exactly that.
Thm_C4 ==
  [][\A i \in 1..MaxFetches :
       /\ (i <= Len(fetches) /\ fetches[i].status = "pending" /\ fetches[i].active
             /\ fetches'[i].status = "resolved") =>
            LET results == fetchFruits(fetches[i].arg)
            IN queued' = Hooks(results, IF results = <<>> THEN -1 ELSE 0, TRUE, FALSE)
       /\ (event = Ev("resolve", i) /\ i <= Len(fetches) /\ fetches[i].applied = 1
             /\ Renders) =>
            /\ suggestions' = fetchFruits(fetches[i].arg)
            /\ ~loading'
            /\ open'
            /\ highlightedIndex' = (IF suggestions' = <<>> THEN -1 ELSE 0)]_vars

\* An empty result was rendered: the list is open on "No results found".
Wit_C4 ==
  /\ event.op = "render"
  /\ Len(fetches) = 1 /\ fetches[1].applied = 1
  /\ suggestions = <<>> /\ open /\ ~loading /\ highlightedIndex = -1

\* C5: a commit of v (Enter on a valid highlighted index, or a click on an
\* option) sets the input text to v, closes the list, empties the candidate
\* list, sets the highlighted index to -1 and calls onSelect once with v; with
\* no onSelect the state changes are the same and nothing is called.  The
\* queued updates are rebased so that the next render keeps all three.
Committed(v) ==
  /\ inputValue' = v /\ ~open' /\ suggestions' = <<>> /\ highlightedIndex' = -1
  /\ ~queued'.open /\ queued'.suggestions = <<>> /\ queued'.highlightedIndex = -1
  /\ Notified(v)

Thm_C5 ==
  [][/\ (event'.op = "click" /\ OptionRendered(event'.n)) =>
          Committed(suggestions[event'.n + 1])
     /\ (event'.op = "Enter" /\ mounted /\ open /\ EnterCommits) =>
          Committed(suggestions[highlightedIndex + 1])]_vars

\* A click committed the first candidate of a widget without onSelect.
Wit_C5 ==
  /\ event = Ev("click", 0)
  /\ ~onSelect /\ selected = <<>>
  /\ inputValue = FruitList[1]
  /\ ~open /\ suggestions = <<>> /\ highlightedIndex = -1

\* C6 (as claimed): while the list is open with n >= 1 candidates, ArrowDown
\* moves the highlighted index h to (h + 1) mod n and ArrowUp to
\* (h - 1 + n) mod n, and neither changes the input text, the candidate list
\* or the open flag.
CE_C6 ==
  [][(mounted /\ open /\ Len(suggestions) >= 1) =>
       LET n == Len(suggestions)
       IN /\ event'.op = "ArrowDown" =>
               /\ highlightedIndex' = (highlightedIndex + 1) % n
               /\ UNCHANGED <<inputValue, suggestions, open>>
          /\ event'.op = "ArrowUp" =>
               /\ highlightedIndex' = (highlightedIndex - 1 + n) % n
               /\ UNCHANGED <<inputValue, suggestions, open>>]_vars

\* C7: while the list is open, Enter commits the candidate at the highlighted
\* index when the index is inside the list (onSelect receives it), and changes
\* no widget state, queues no update, issues no fetch and calls nothing when
\* it is not.
Thm_C7 ==
  [][(event'.op = "Enter" /\ mounted /\ open) =>
       IF highlightedIndex \in 0..(Len(suggestions) - 1)
       THEN /\ inputValue' = suggestions[highlightedIndex + 1]
            /\ Notified(suggestions[highlightedIndex + 1])
       ELSE UNCHANGED <<WidgetState, queued, fetches, selected>>]_vars

\* Two results arrived, ArrowDown was pressed, and Enter committed the second.
Wit_C7 ==
  /\ event.op = "Enter"
  /\ Len(fetches) >= 1
  /\ fetches[1].text = <<" ", "b">>
  /\ selected = <<FruitList[2]>>
  /\ inputValue = FruitList[2]

\* C8 (as claimed): the highlighted index is -1 or a valid index into the
\* candidate list.
CE_C8 ==
  \/ highlightedIndex = -1
  \/ (highlightedIndex >= 0 /\ highlightedIndex < Len(suggestions))

\* C9 (as claimed): in a burst of input changes (one change directly after
\* another) no fetch has been issued for the intermediate text.
IntermediateFetched ==
  \E i \in 1..Len(fetches) : fetches[i].active /\ fetches[i].text = inputValue

CE_C9 ==
  [][(event.op = "change" /\ event'.op = "change") => ~IntermediateFetched]_vars

\* C10 (as claimed): the fetcher is invoked with the trimmed input text.
CE_C10 ==
  \A i \in 1..Len(fetches) : fetches[i].arg = trim(fetches[i].text)

\* C10 (amended): the fetcher is invoked with the input text exactly as it
\* stands, whitespace included, so a text and its whitespace-padded variant
\* produce different fetcher arguments.
Thm_C10 ==
  /\ \A i \in 1..Len(fetches) : fetches[i].arg = fetches[i].text
  /\ \A i, j \in 1..Len(fetches) :
       fetches[i].text # fetches[j].text => fetches[i].arg # fetches[j].arg

\* Two padded texts were fetched: both arguments kept the padding.
Wit_C10 ==
  /\ Len(fetches) = 2
  /\ fetches[1].text = <<" ">>
  /\ fetches[1].arg = <<" ">>
  /\ fetches[2].text = <<" ", "b">>
  /\ fetches[2].arg = <<" ", "b">>
  /\ fetches[2].arg # trim(fetches[2].text)

\* C11: every change of the input text to a non-empty value queues the
\* loading flag and issues exactly one fetchSuggestions call, whose argument
\* is the new input text as it stands; the calls issued before stay as they
\* were, and the render that follows shows the widget loading.
Thm_C11 ==
  [][/\ (inputValue' # inputValue /\ inputValue' # <<>>) =>
          /\ queued'.loading
          /\ Len(fetches') = Len(fetches) + 1
          /\ fetches'[Len(fetches')].arg = inputValue'
          /\ fetches'[Len(fetches')].status = "pending"
          /\ \A i \in 1..Len(fetches) :
               /\ fetches'[i].arg = fetches[i].arg
               /\ fetches'[i].status = fetches[i].status
     /\ (event.op = "change" /\ inputValue # <<>> /\ Renders) => loading']_vars

\* A padded text was typed over an earlier one: a second call, argument raw,
\* and the widget is shown loading.
Wit_C11 ==
  /\ event.op = "render"
  /\ inputValue = <<" ", "b">>
  /\ loading
  /\ Len(fetches) = 2
  /\ fetches[2].arg = <<" ", "b">> /\ fetches[2].status = "pending"

\* C12: Escape pressed while the list is open closes the list and leaves the
\* input text, the candidate list and the highlighted index unchanged, in
\* what is rendered and in what is queued.
Thm_C12 ==
  [][(event'.op = "Escape" /\ mounted /\ open) =>
       /\ ~open'
       /\ UNCHANGED <<inputValue, suggestions, highlightedIndex, loading>>
       /\ queued' = [queued EXCEPT !.open = FALSE]]_vars

\* Escape closed a list that still holds its candidates and its highlight.
Wit_C12 ==
  /\ event.op = "Escape"
  /\ ~open
  /\ Len(suggestions) = 2 /\ highlightedIndex = 1
  /\ inputValue = <<" ", "b">>
  /\ Settled

\* C13: a pointer-down outside the widget closes the list and changes nothing
\* else; a pointer-down inside the widget changes nothing at all.
Thm_C13 ==
  [][/\ event'.op = "mousedownOutside" =>
          /\ ~open'
          /\ queued' = [queued EXCEPT !.open = FALSE]
          /\ UNCHANGED <<inputValue, suggestions, highlightedIndex, loading,
                         fetches, selected>>
     /\ event'.op = "mousedownInside" =>
          UNCHANGED <<WidgetState, queued, fetches, selected>>]_vars

\* The list was closed from outside; text, candidates and highlight remain.
Wit_C13 ==
  /\ event.op = "mousedownOutside"
  /\ ~open /\ ~loading
  /\ Len(suggestions) = 2 /\ highlightedIndex = 1
  /\ inputValue = <<" ", "b">>
  /\ Settled

\* C14: while the list is closed, ArrowDown, ArrowUp, Enter and Escape change
\* no widget state, queue no update, issue no fetch and call nothing; any
\* other key does so whether the list is open or closed.
Thm_C14 ==
  [][/\ (event'.op \in Keys /\ mounted /\ ~open) =>
          UNCHANGED <<WidgetState, queued, fetches, selected>>
     /\ event'.op = "Other" =>
          UNCHANGED <<WidgetState, queued, fetches, selected>>]_vars

\* Enter on a closed list that holds a highlighted candidate committed nothing.
Wit_C14 ==
  /\ event.op = "Enter"
  /\ ~open
  /\ Len(suggestions) = 2 /\ highlightedIndex = 0
  /\ selected = <<>> /\ Len(fetches) = 1
  /\ Settled

\* C15: hovering an option queues the highlighted index of that option and
\* changes nothing else, and the render that follows shows it; a click on an
\* option commits that option's candidate, whatever is highlighted; a
\* pointer-down on an option leaves the list open.
Thm_C15 ==
  [][/\ (event'.op = "hover" /\ OptionRendered(event'.n)) =>
          /\ queued' = [queued EXCEPT !.highlightedIndex = event'.n]
          /\ UNCHANGED <<WidgetState, fetches, selected>>
     /\ (event.op = "hover" /\ Renders) =>
          /\ highlightedIndex' = event.n
          /\ UNCHANGED <<inputValue, fetches, selected>>
     /\ (event'.op = "click" /\ OptionRendered(event'.n)) =>
          /\ inputValue' = suggestions[event'.n + 1]
          /\ Notified(suggestions[event'.n + 1])
     /\ (event'.op = "mousedownInside" /\ open) => open']_vars

\* The second option was clicked and committed while the first was
\* highlighted.
Wit_C15 ==
  /\ event = Ev("click", 1)
  /\ selected = <<FruitList[2]>>
  /\ inputValue = FruitList[2]
  /\ Len(fetches) = 2 /\ fetches[1].applied = 1

\* C16: unmounting marks every fetch inactive, and after the unmount no step
\* (in particular no fetch settlement) changes widget state, queues an update
\* or calls onSelect.
Thm_C16 ==
  [][/\ ~mounted => UNCHANGED <<WidgetState, queued, selected>>
     /\ ~mounted' => \A i \in 1..Len(fetches') : ~fetches'[i].active]_vars

\* A fetch that was pending at the unmount resolved afterwards.
Wit_C16 ==
  /\ ~mounted
  /\ event.op = "resolve"
  /\ fetches[event.n].text = inputValue
  /\ fetchFruits(fetches[event.n].arg) # queued.suggestions
  /\ loading /\ Settled

\* C17 (as claimed): while the fetch of the current effect run has not
\* settled, the loading flag is queued or rendered, and rendered once nothing
\* is queued; as long as that fetch stays pending and not superseded this
\* stays so and no fetch result replaces the candidate list.  A fetch leaves
\* the pending state only by its own settlement (no timeout), and a new call
\* is issued only when the input text changes (no retry).  Once a newer query
\* has superseded a fetch that never settles, its loading state has ended:
\* with every queued update rendered, the widget is loading only if the
\* newer query has a fetch of its own that has not been answered.
Unsettled(i) ==
  i <= Len(fetches) /\ fetches[i].status = "pending"

Unanswered(j) ==
  j <= Len(fetches) /\ fetches[j].active /\ fetches[j].status # "resolved"

CE_C17 ==
  [][\A i \in 1..MaxFetches :
       /\ (mounted /\ Unsettled(i) /\ fetches[i].active) =>
            /\ queued.loading
            /\ Settled => loading
            /\ (fetches'[i].status = "pending" /\ fetches'[i].active) =>
                 /\ queued'.loading
                 /\ \A j \in 1..Len(fetches) : ~Applies(j)
                 /\ queued'.suggestions \in {queued.suggestions, <<>>}
            /\ fetches'[i].status # "pending" => event' \in {Ev("resolve", i), Ev("reject", i)}
       /\ Len(fetches') > Len(fetches) => inputValue' # inputValue
       /\ (mounted /\ Unsettled(i) /\ ~fetches[i].active /\ Settled
             /\ \A j \in 1..MaxFetches : ~Unanswered(j)) => ~loading]_vars

\* C18 (as claimed): aria-expanded equals the open flag, exactly the option at
\* the highlighted index is marked selected, and whenever aria-activedescendant
\* is set it names an option that is rendered (list open, not loading, index
\* within the candidate list).
CE_C18 ==
  mounted =>
    /\ ariaExpanded = open
    /\ \A index \in OptionIndices :
         OptionRendered(index) => (ariaSelected(index) <=> index = highlightedIndex)
    /\ ariaActiveDescendant # -1 => OptionRendered(ariaActiveDescendant)

\* C19 (as claimed): with q the trimmed input text and c the suggestion, if q
\* is non-empty and occurs in c ignoring case, c is split into before / match /
\* after around the first occurrence, match has q's length and equals q
\* ignoring case, and before, match and after concatenate to c; otherwise c is
\* returned unmodified.
OccursAt(c, q, i) ==
  /\ i + Len(q) <= Len(c)
  /\ toLowerCase(SubSeq(c, i + 1, i + Len(q))) = toLowerCase(q)

Occurs(c, q) == \E i \in 0..Len(c) : OccursAt(c, q, i)

CE_C19 ==
  hlOut # NotRendered =>
    LET q == trim(hlInput)
        c == hlSuggestion
    IN IF q # <<>> /\ Occurs(c, q)
       THEN /\ hlOut.kind = "split"
            /\ Len(hlOut.match) = Len(q)
            /\ toLowerCase(hlOut.match) = toLowerCase(q)
            /\ hlOut.before \o hlOut.match \o hlOut.after = c
            /\ OccursAt(c, q, Len(hlOut.before))
            /\ \A i \in 0..(Len(hlOut.before) - 1) : ~OccursAt(c, q, i)
       ELSE hlOut = Plain(c)

\* Shorthands over one step of data.ts: the step is a new fetchFruits call;
\* call i leaves fetchAllFruits in this step.
Called == Len(calls') = Len(calls) + 1

Blank(query) == toLowerCase(trim(query)) = <<>>

Finishes(i) ==
  i <= Len(calls) /\ calls[i].pc \in {"direct", "proxy"} /\ calls'[i].pc = "done"

\* C20 (as claimed): a fetchFruits call made while a cached list exists and
\* less than CACHE_DURATION has passed since lastFetchTime performs no API
\* request and resolves to the filtered cached list; a call made when
\* CACHE_DURATION or more has passed performs a fresh API request, and the
\* list that request yields replaces the cache.
CE_C20 ==
  [][/\ Called =>
          LET c == calls'[Len(calls')]
          IN /\ (fruitsCache # Null /\ now - lastFetchTime < CACHE_DURATION) =>
                  /\ apiRequests' = apiRequests
                  /\ c.pc = "done"
                  /\ c.result = filterFruits(fruitsCache, toLowerCase(trim(c.query)))
             /\ (fruitsCache # Null /\ now - lastFetchTime >= CACHE_DURATION) =>
                  /\ apiRequests' = apiRequests + 1
                  /\ c.requested
     /\ \A i \in 1..MaxCalls :
          Finishes(i) => (fruitsCache' = calls'[i].list /\ fruitsCache' # Null)]_vars

\* C20 (amended): the same for a fetchFruits call whose query is not blank; a
\* call with a blank query performs no request and leaves the cache alone,
\* however old the cache is.
Thm_C20 ==
  [][/\ Called =>
          LET c == calls'[Len(calls')]
          IN /\ (~Blank(c.query) /\ fruitsCache # Null
                   /\ now - lastFetchTime < CACHE_DURATION) =>
                  /\ apiRequests' = apiRequests
                  /\ c.pc = "done"
                  /\ c.result = filterFruits(fruitsCache, toLowerCase(trim(c.query)))
                  /\ UNCHANGED <<fruitsCache, lastFetchTime>>
             /\ (~Blank(c.query) /\ now - lastFetchTime >= CACHE_DURATION) =>
                  /\ apiRequests' = apiRequests + 1
                  /\ c.requested
             /\ Blank(c.query) =>
                  /\ apiRequests' = apiRequests
                  /\ c.pc = "done" /\ c.result = <<>>
                  /\ UNCHANGED <<fruitsCache, lastFetchTime>>
     /\ \A i \in 1..MaxCalls :
          Finishes(i) =>
            /\ fruitsCache' = calls'[i].list /\ fruitsCache' # Null
            /\ lastFetchTime' = calls[i].at]_vars

\* A second call came exactly CACHE_DURATION after the recorded fetch time of
\* a filled cache and sent a fresh request.
Wit_C20 ==
  /\ Len(calls) = 2
  /\ calls[1].pc = "done" /\ calls[1].requested
  /\ fruitsCache = calls[1].list /\ lastFetchTime = calls[1].at
  /\ calls[2].at - lastFetchTime = CACHE_DURATION
  /\ calls[2].requested /\ calls[2].pc = "direct"
  /\ apiRequests = 2

\* C21: no fetchFruits call ever rejects.  A call with an empty or
\* whitespace-only query resolves to [] at once, sends no request and neither
\* reads nor writes the cache; when the direct and the proxy request both fail
\* the call resolves to the matches within the built-in list; a call whose
\* query matches no name of its list resolves to [].
Matches(list, query) ==
  {n \in 1..Len(list) : includes(toLowerCase(list[n]), toLowerCase(trim(query)))}

Thm_C21 ==
  [][/\ \A i \in 1..Len(calls') : calls'[i].pc \in {"direct", "proxy", "done"}
     /\ (Called /\ Blank(calls'[Len(calls')].query)) =>
          LET c == calls'[Len(calls')]
          IN /\ c.pc = "done" /\ c.result = <<>> /\ ~c.requested
             /\ UNCHANGED <<fruitsCache, lastFetchTime, apiRequests>>
     /\ \A i \in 1..Len(calls) :
          /\ (calls[i].pc = "proxy" /\ calls'[i].pc # "proxy"
                /\ calls'[i].list \notin ApiLists) =>
               /\ calls'[i].pc = "done"
               /\ calls'[i].list = FallbackFruits
               /\ calls'[i].result = filterFruits(FallbackFruits,
                                                  toLowerCase(trim(calls[i].query)))
          /\ (Finishes(i) /\ Matches(calls'[i].list, calls[i].query) = {}) =>
               calls'[i].result = <<>>
     /\ (Called /\ calls'[Len(calls')].pc = "done" /\ fruitsCache # Null
           /\ Matches(fruitsCache, calls'[Len(calls')].query) = {}) =>
          calls'[Len(calls')].result = <<>>]_vars

\* Both requests of the first call failed and it resolved to the matches in
\* the built-in list; the second call matched nothing and resolved to [].
Wit_C21 ==
  /\ Len(calls) = 2
  /\ calls[1].query = <<"B">> /\ calls[1].pc = "done"
  /\ calls[1].list = FallbackFruits
  /\ calls[1].result = << <<"A", "b">>, <<"b", "a">> >>
  /\ calls[2].query = <<"b", "b">> /\ calls[2].pc = "done"
  /\ calls[2].result = <<>>

\* A step that commits a candidate: the click on a rendered option, or Enter
\* on a valid highlighted index of the open list.
Commits ==
  \/ event'.op = "click" /\ OptionRendered(event'.n)
  \/ event'.op = "Enter" /\ mounted /\ open /\ EnterCommits

\* Fetch number i is the one in flight for the current query text.
InFlight(i) ==
  Unsettled(i) /\ fetches[i].active /\ fetches[i].text = inputValue

\* C22 (as claimed): a commit issues no fetch, and when a fetch settles after
\* a commit by click no reopening of the list and no candidate is queued.
CE_C22 ==
  [][/\ Commits => Len(fetches') = Len(fetches)
     /\ (event.op = "click" /\ event'.op \in {"resolve", "reject"}) =>
          (~queued'.open /\ queued'.suggestions = <<>>)]_vars

\* C23 (as claimed): Enter pressed while the list is open and the fetch for the current
\* query text is outstanding commits nothing: the text stays and onSelect is
\* not called.
CE_C23 ==
  [][(event'.op = "Enter" /\ mounted /\ open /\ loading
        /\ \E i \in 1..Len(fetches) : InFlight(i)) =>
       UNCHANGED <<inputValue, selected>>]_vars

\* C24 (as claimed): after Escape or an outside pointer-down closed a list
\* that showed candidates, the settlement of the fetch in flight for the
\* current query text queues no reopening of the list.
CE_C24 ==
  [][(event.op \in {"Escape", "mousedownOutside"} /\ ~open /\ suggestions # <<>>
        /\ Settled
        /\ event'.op \in {"resolve", "reject"} /\ InFlight(event'.n)) =>
       ~queued'.open]_vars

\* C25 (as claimed): while the widget is mounted and every queued update has
\* been rendered, loading is true exactly when a fetch issued for the current
\* query text has not settled.
CE_C25 ==
  (mounted /\ Settled) => (loading <=> \E i \in 1..Len(fetches) : InFlight(i))

\* The fetch issued for the current query text has rejected.
Failed(i) ==
  /\ i <= Len(fetches)
  /\ fetches[i].active /\ fetches[i].status = "rejected"
  /\ fetches[i].text = inputValue

\* C26: the rejection of a fetch changes neither the query text, the
\* candidate list, the highlighted index, the open flag nor the loading flag,
\* rendered or queued; after the fetch for the current query text rejected,
\* loading is queued or rendered and stays so as long as the text stays; the
\* next non-empty query text still gets its fetch, and a result that is
\* applied is applied as ever.
Thm_C26 ==
  [][\A i \in 1..MaxFetches :
       /\ event' = Ev("reject", i) =>
            /\ UNCHANGED <<WidgetState, queued>>
            /\ fetches'[i].status = "rejected"
            /\ InFlight(i) => queued'.loading
       /\ (mounted /\ Failed(i)) =>
            /\ queued.loading
            /\ Settled => loading
            /\ (mounted' /\ inputValue' = inputValue) =>
                 (queued'.loading /\ \A j \in 1..Len(fetches) : ~Applies(j))
            /\ (inputValue' # inputValue /\ ~EmptyInput(inputValue')) =>
                 /\ Len(fetches') = Len(fetches) + 1
                 /\ fetches'[Len(fetches')] = NewFetch(inputValue')
                 /\ queued'.loading
       /\ (Applies(i) /\ \E j \in 1..Len(fetches) : fetches[j].status = "rejected") =>
            LET results == fetchFruits(fetches[i].arg)
            IN queued' = Hooks(results, ResultIndex(results), TRUE, FALSE)]_vars

\* The fetch for the second query text rejected while the list showed the
\* candidates of the first: the list is as it was and still loading.
Wit_C26 ==
  /\ event = Ev("reject", 2)
  /\ Failed(2)
  /\ fetches[1].applied = 1
  /\ mounted /\ open /\ loading /\ Settled
  /\ suggestions = fetchFruits(fetches[1].arg) /\ suggestions # <<>>
  /\ highlightedIndex = 0

\* C27: two fetchFruits calls that each sent their own full-list request
\* began at least CACHE_DURATION apart, and no two such requests are in
\* flight at once.
Requesting(i) == calls[i].requested /\ calls[i].pc \in {"direct", "proxy"}

CE_C27 ==
  \A i, j \in 1..Len(calls) :
    (i < j /\ calls[i].requested /\ calls[j].requested) =>
      /\ calls[j].at - calls[i].at >= CACHE_DURATION
      /\ ~(Requesting(i) /\ Requesting(j))
====
